---- MODULE Spec2Model ----
(***************************************************************************)
(* Model of pulse2percept/stimuli.py: MonophasicPulse, BiphasicPulse,      *)
(* PulseTrain, parse_pulse_trains and image2pulsetrain.                    *)
(*                                                                         *)
(* Numbers.  Every duration (tsample, dur, delay, pdur, ...) is an integer *)
(* count of time units, UnitsPerSecond units to the second, so a quotient  *)
(* of two durations is an exact rational n/d and np.round / round / np.ceil*)
(* are computed on that rational.  Frequencies are integers in Hz.         *)
(* Amplitudes are integers in units of 1/AmpUnitsPerOne, the absolute      *)
(* tolerance of np.isclose, so that "close to zero but not zero" exists.   *)
(*                                                                         *)
(* A call either returns a value or raises; Return / Raise are the two     *)
(* outcomes, and Raise records the exception type and the raise site.      *)
(***************************************************************************)
EXTENDS Integers, Sequences, FiniteSets, TLC

VARIABLES op, args, pc, ret, heap

vars == <<op, args, pc, ret, heap>>

(* ------------------------------ bounds -------------------------------- *)

UnitsPerSecond == 16

MaxDur == 16

MaxElectrodes == 3

MaxSamples == 2

(* ------------------------- numeric primitives -------------------------- *)

Abs(x) == IF x < 0 THEN -x ELSE x

AmpUnitsPerOne == 10^8

\* an exact comparison with zero in place of the tolerance
exact_zero(a, unitsPerOne) == a = 0

\* np.isclose(a, 0) with the default atol = 1e-8 (rtol * |0| = 0), for a
\* value a counted in units of 1/unitsPerOne: |a / unitsPerOne| <= 1e-8.
np_isclose_zero(a, unitsPerOne) == Abs(a) * 10^8 <= unitsPerOne

\* Round half to even of the rational n/d, d > 0.
RoundHalfEven(n, d) ==
    LET q == n \div d
        r == n % d
    IN  IF 2 * r < d THEN q
        ELSE IF 2 * r > d THEN q + 1
        ELSE IF q % 2 = 0 THEN q ELSE q + 1

\* int(np.round(n / d)) for d # 0.
np_round(n, d) == IF d > 0 THEN RoundHalfEven(n, d) ELSE RoundHalfEven(-n, -d)

\* round half away from zero (the builtin round of Python 2)
round_half_away(n, d) ==
    LET m == IF d > 0 THEN n ELSE -n
        e == Abs(d)
    IN  IF m >= 0 THEN (2 * m + e) \div (2 * e) ELSE -((2 * (-m) + e) \div (2 * e))

\* int(round(n / d)), the builtin (round half to even), d # 0.
py_round(n, d) == IF d > 0 THEN RoundHalfEven(n, d) ELSE RoundHalfEven(-n, -d)

\* int(np.ceil(n / d)) for d > 0.
np_ceil(n, d) == -((-n) \div d)

(* --------------------------- array primitives -------------------------- *)

np_zeros(n) == [i \in 1..n |-> 0]

np_ones(n) == [i \in 1..n |-> 1]

Scale(a, s) == [i \in 1..Len(s) |-> a * s[i]]

\* a slice that never shortens
SliceNone(s, n) == s

\* s[:n], n of either sign.
SliceTo(s, n) ==
    IF n >= 0
    THEN SubSeq(s, 1, IF n < Len(s) THEN n ELSE Len(s))
    ELSE SubSeq(s, 1, IF Len(s) + n > 0 THEN Len(s) + n ELSE 0)

RECURSIVE SumSeq(_)
SumSeq(s) == IF s = <<>> THEN 0 ELSE Head(s) + SumSeq(Tail(s))

(* ------------------------------ outcomes ------------------------------- *)

NoValue == [tsample |-> 0, data |-> <<>>]

TimeSeries(tsample, data) == [tsample |-> tsample, data |-> data]

Return(v) == [status |-> "ok", at |-> "", value |-> v]

Raise(type, site) == [status |-> type, at |-> site, value |-> NoValue]

NotCalled == [status |-> "none", at |-> "", value |-> NoValue]

\* An optional argument: None, or Some(x).
None == <<>>

Some(x) == <<x>>

(* --------------------------- MonophasicPulse --------------------------- *)

\* MonophasicPulse.__init__(ptype, pdur, tsample, delay_dur, stim_dur)
MonophasicPulse(ptype, pdur, tsample, delay_dur, stim_dur_in) ==
    IF tsample <= 0 THEN Raise("ValueError", "tsample")
    ELSE
    LET stim_dur   == IF stim_dur_in = None THEN pdur + delay_dur ELSE stim_dur_in[1]
        pulse_size == np_round(pdur, tsample)
        delay_size == np_round(delay_dur, tsample)
        stim_size  == np_round(stim_dur, tsample)
    IN  IF ptype \notin {"cathodic", "anodic"} THEN Raise("ValueError", "ptype")
        ELSE IF pulse_size < 0 \/ delay_size < 0 \/ stim_size < 0
             THEN Raise("ValueError", "negative dimensions")
        ELSE
        LET pulse == IF ptype = "cathodic" THEN Scale(-1, np_ones(pulse_size))
                                           ELSE np_ones(pulse_size)
            cat   == np_zeros(delay_size) \o pulse \o np_zeros(stim_size)
        IN  Return(TimeSeries(tsample, SliceTo(cat, stim_size)))

(* ---------------------------- BiphasicPulse ---------------------------- *)

\* BiphasicPulse.__init__(ptype, pdur, tsample, interphase_dur)
BiphasicPulse(ptype, pdur, tsample, interphase_dur) ==
    IF tsample <= 0 THEN Raise("ValueError", "tsample")
    ELSE
    LET on       == MonophasicPulse("anodic", pdur, tsample, 0, Some(pdur))
        off      == MonophasicPulse("cathodic", pdur, tsample, 0, Some(pdur))
        gap_size == py_round(interphase_dur, tsample)
    IN  IF on.status # "ok" THEN on
        ELSE IF off.status # "ok" THEN off
        ELSE IF gap_size < 0 THEN Raise("ValueError", "negative dimensions")
        ELSE IF ptype = "cathodicfirst"
             THEN Return(TimeSeries(tsample,
                      (off.value.data \o np_zeros(gap_size)) \o on.value.data))
        ELSE IF ptype = "anodicfirst"
             THEN Return(TimeSeries(tsample,
                      (on.value.data \o np_zeros(gap_size)) \o off.value.data))
        ELSE Raise("ValueError", "ptype")

(* ------------------------------ PulseTrain ----------------------------- *)

\* stim_size = int(np.round(1.0 * dur / tsample))
StimSize(a) == np_round(a.dur, a.tsample)

\* np.isclose(freq, 0) or np.isclose(amp, 0)
Trivial(a) == np_isclose_zero(a.freq, 1) \/ np_isclose_zero(a.amp, AmpUnitsPerOne)

\* envelope_size = int(np.round(1.0 / float(freq) / tsample))
EnvelopeSize(a) == np_round(UnitsPerSecond, a.freq * a.tsample)

\* delay_size = int(np.round(1.0 * delay / tsample))
DelaySize(a) == np_round(a.delay, a.tsample)

\* a loop that emits only the whole periods (floor in place of ceil)
PeriodsFloor(a) ==
    LET n == (a.dur * a.freq) \div UnitsPerSecond IN IF n < 0 THEN 0 ELSE n

\* range(int(np.ceil(dur * freq))): the number of passes of the loop
Periods(a) ==
    LET n == np_ceil(a.dur * a.freq, UnitsPerSecond) IN IF n < 0 THEN 0 ELSE n

\* a gap_size that forgets the delay
GapSizeNoDelay(a, pulse_size) == EnvelopeSize(a) - pulse_size

\* gap_size = envelope_size - (delay_size + pulse_size)
GapSize(a, pulse_size) == EnvelopeSize(a) - (DelaySize(a) + pulse_size)

\* one pass of the loop appends one envelope to pulse_train
Envelope(pulseorder, delay, pulse, gap) ==
    IF pulseorder = "pulsefirst" THEN (delay \o pulse) \o gap
    ELSE (delay \o gap) \o pulse

RECURSIVE Repeat(_, _)
Repeat(s, n) == IF n <= 0 THEN <<>> ELSE Repeat(s, n - 1) \o s

\* pulse_train as it stands after the loop, before the length correction
Assemble(pulseorder, delay, pulse, gap, n) ==
    Repeat(Envelope(pulseorder, delay, pulse, gap), n)

\* a length correction that trims but never zero-extends
FitLengthNoFill(pulse_train, stim_size) == SliceTo(pulse_train, stim_size)

\* the length correction: zero-extend if short, then pulse_train[:stim_size]
FitLength(pulse_train, stim_size) ==
    LET filled == IF Len(pulse_train) < stim_size
                  THEN pulse_train \o np_zeros(stim_size - Len(pulse_train))
                  ELSE pulse_train
    IN  SliceTo(filled, stim_size)

\* PulseTrain.__init__(tsample, freq, amp, dur, delay, pulse_dur,
\*                     interphase_dur, pulsetype, pulseorder)
PulseTrain(a) ==
    IF a.tsample <= 0 THEN Raise("ValueError", "tsample")
    ELSE IF Trivial(a)
         THEN IF StimSize(a) < 0 THEN Raise("ValueError", "negative dimensions")
              ELSE Return(TimeSeries(a.tsample, np_zeros(StimSize(a))))
    ELSE IF DelaySize(a) < 0 THEN Raise("ValueError", "delay")
    ELSE
    LET bp == BiphasicPulse(a.pulsetype, a.pulse_dur, a.tsample, a.interphase_dur)
    IN  IF bp.status # "ok" THEN bp
        ELSE
        LET pulse      == Scale(a.amp, bp.value.data)
            pulse_size == Len(pulse)
            gap_size   == GapSize(a, pulse_size)
        IN  IF pulse_size < 0 THEN Raise("ValueError", "pulse_size")
            ELSE IF gap_size < 0 THEN Raise("ValueError", "gap_size")
            ELSE IF Periods(a) > 0 /\ a.pulseorder \notin {"pulsefirst", "gapfirst"}
                 THEN Raise("ValueError", "pulseorder")
            ELSE Return(TimeSeries(a.tsample,
                     FitLength(Assemble(a.pulseorder, np_zeros(DelaySize(a)), pulse,
                                        np_zeros(gap_size), Periods(a)),
                               StimSize(a))))

(* ------------------------------- inputs -------------------------------- *)

TsampleValues == {0, 1, 2, 3}

FreqValues == {-1, 0, 1, 3, 4}

AmpValues == {-2, 0, 1, 3}

DelayValues == {-2, -1, 0, 1}

PulseDurValues == {0, 1, 2}

InterphaseValues == {0, 1}

PulseTypes == {"cathodicfirst", "anodicfirst", "bogus"}

PulseOrders == {"pulsefirst", "gapfirst", "bogus"}

\* dur is unconstrained in the code: negative durations down to one whole
\* second below zero are drawn as well as 0..MaxDur
DurValues == (-UnitsPerSecond)..MaxDur

TrainInputs ==
    [tsample : TsampleValues, freq : FreqValues, amp : AmpValues, dur : DurValues,
     delay : DelayValues, pulse_dur : PulseDurValues,
     interphase_dur : InterphaseValues, pulsetype : PulseTypes,
     pulseorder : PulseOrders]

(* ---------------------- specification: PulseTrain ---------------------- *)

InitTrain ==
    /\ op = "PulseTrain"
    /\ args \in TrainInputs
    /\ pc = "call"
    /\ ret = NotCalled
    /\ heap = <<>>

\* the constructor call PulseTrain(**args)
CallPulseTrain ==
    /\ op = "PulseTrain"
    /\ pc = "call"
    /\ ret' = PulseTrain(args)
    /\ pc' = "done"
    /\ UNCHANGED <<op, args, heap>>

NextTrain == CallPulseTrain

SpecTrain == InitTrain /\ [][NextTrain]_vars

(* ---------------------------- claims: C1 ------------------------------ *)

\* the length of pulse_train after the loop of a construction that reaches it
AssembledSize(a) == Periods(a) * EnvelopeSize(a)

\* C1 as stated: for any dur, every PulseTrain construction that succeeds
\* has exactly round(dur / tsample) samples, whatever the length of the
\* assembled buffer.
C1_AsStated ==
    (op = "PulseTrain" /\ pc = "done" /\ ret.status = "ok")
        => Len(ret.value.data) = np_round(args.dur, args.tsample)

\* C1 amended: every PulseTrain construction that succeeds has exactly
\* round(dur / tsample) samples when that count is not negative, whatever
\* the length of the assembled buffer, and no samples at all when it is
\* negative; with a negative count only a construction off the all-zeros
\* shortcut succeeds, the shortcut raising ValueError.
C1_ExactLength ==
    /\ (op = "PulseTrain" /\ pc = "done" /\ ret.status = "ok")
          => /\ Len(ret.value.data)
                  = IF np_round(args.dur, args.tsample) >= 0
                    THEN np_round(args.dur, args.tsample)
                    ELSE 0
             /\ (np_round(args.dur, args.tsample) < 0 => ~Trivial(args))
    /\ (op = "PulseTrain" /\ pc = "done" /\ args.tsample > 0 /\ Trivial(args)
           /\ np_round(args.dur, args.tsample) < 0)
          => ret.status = "ValueError"

\* a successful non-trivial construction whose assembled buffer was shorter
\* than stim_size and held at least one pulse
C1_Witness ==
    /\ op = "PulseTrain" /\ pc = "done" /\ ret.status = "ok"
    /\ ~Trivial(args)
    /\ AssembledSize(args) > 0
    /\ AssembledSize(args) < StimSize(args)
    /\ \E i \in 1..Len(ret.value.data) : ret.value.data[i] # 0

(* ---------------------------- claims: C2 ------------------------------ *)

\* pulse_samples = 2 * phase_samples + interphase_samples
ClaimPulseSamples(a) ==
    2 * np_round(a.pulse_dur, a.tsample) + np_round(a.interphase_dur, a.tsample)

\* the envelope is smaller than delay plus pulse
ClaimNoFit(a) ==
    /\ a.tsample > 0
    /\ a.freq # 0
    /\ np_round(UnitsPerSecond, a.freq * a.tsample)
           < np_round(a.delay, a.tsample) + ClaimPulseSamples(a)

\* C2 as stated: with freq and amp both non-zero, an envelope smaller than
\* delay_samples + pulse_samples makes the construction fail with ValueError.
C2_AsStated ==
    (op = "PulseTrain" /\ pc = "done" /\ args.freq # 0 /\ args.amp # 0
        /\ ClaimNoFit(args))
        => ret.status = "ValueError"

\* C2 amended: with freq and amp both not close to zero (np.isclose, atol
\* 1e-8), an envelope smaller than delay_samples + pulse_samples makes the
\* construction fail with ValueError and no waveform is produced.
C2_NoFitRaises ==
    (op = "PulseTrain" /\ pc = "done" /\ args.freq # 0
        /\ Abs(args.amp) * 10^8 > AmpUnitsPerOne /\ ClaimNoFit(args))
        => (ret.status = "ValueError" /\ ret.value = NoValue)

\* valid tokens, non-negative delay, a real amplitude, and the pulse does not
\* fit: rejected by the gap_size check
C2_Witness ==
    /\ op = "PulseTrain" /\ pc = "done"
    /\ Abs(args.amp) * 10^8 > AmpUnitsPerOne /\ ClaimNoFit(args)
    /\ args.freq > 0 /\ args.delay > 0 /\ np_round(args.delay, args.tsample) > 0
    /\ args.pulsetype \in {"cathodicfirst", "anodicfirst"}
    /\ args.pulseorder \in {"pulsefirst", "gapfirst"}
    /\ np_round(UnitsPerSecond, args.freq * args.tsample) >= ClaimPulseSamples(args)
    /\ ret.status = "ValueError" /\ ret.at = "gap_size"

(* ---------------------------- claims: C6 ------------------------------ *)

\* frequency approximately 0 or amplitude approximately 0
ClaimDegenerate(a) == a.freq = 0 \/ Abs(a.amp) * 10^8 <= AmpUnitsPerOne

\* C6: with tsample > 0 and frequency or amplitude approximately zero the
\* construction returns round(dur / tsample) zeros and raises nothing,
\* whatever delay, pulse_dur, interphase_dur, pulsetype and pulseorder are
\* (round(dur / tsample) being a count of samples, hence not negative).
C6_DegenerateZeros ==
    (op = "PulseTrain" /\ pc = "done" /\ args.tsample > 0 /\ ClaimDegenerate(args)
        /\ np_round(args.dur, args.tsample) >= 0)
        => /\ ret.status = "ok"
           /\ ret.value.tsample = args.tsample
           /\ Len(ret.value.data) = np_round(args.dur, args.tsample)
           /\ \A i \in 1..Len(ret.value.data) : ret.value.data[i] = 0

\* an amplitude close to but not equal to zero, a negative delay, a pulse
\* that cannot fit and unknown tokens: zeros all the same
C6_Witness ==
    /\ op = "PulseTrain" /\ pc = "done" /\ args.tsample > 0
    /\ args.amp # 0 /\ Abs(args.amp) * 10^8 <= AmpUnitsPerOne /\ args.freq > 0
    /\ np_round(args.delay, args.tsample) < 0
    /\ args.pulsetype = "bogus" /\ args.pulseorder = "bogus"
    /\ ret.status = "ok" /\ Len(ret.value.data) > 1

(* ---------------------------- claims: C7 ------------------------------ *)

\* an input the claim says is always rejected
ClaimInvalid(a) ==
    \/ a.tsample <= 0
    \/ a.delay < 0
    \/ a.pulsetype \notin {"cathodicfirst", "anodicfirst"}
    \/ a.pulseorder \notin {"pulsefirst", "gapfirst"}

\* C7: for freq and amp away from zero, a non-positive sampling step, a
\* negative delay or an unrecognized pulsetype / pulseorder token always
\* makes the construction fail with ValueError, whatever the remaining
\* parameters are (dur = 0 and delays within half a sample included).
\* Stated for amplitudes beyond the np.isclose tolerance, so that a
\* violation does not rest on the reading of "non-zero".
C7_EagerValidation ==
    (op = "PulseTrain" /\ pc = "done" /\ args.freq # 0
        /\ Abs(args.amp) * 10^8 > AmpUnitsPerOne /\ ClaimInvalid(args))
        => ret.status = "ValueError"

\* the part of C7 the code keeps: a non-positive tsample, a delay that rounds
\* to a negative sample count, an unknown pulsetype, or an unknown pulseorder
\* with at least one period to emit, is rejected
C7_KeptPart ==
    (op = "PulseTrain" /\ pc = "done" /\ args.freq # 0
        /\ Abs(args.amp) * 10^8 > AmpUnitsPerOne
        /\ \/ args.tsample <= 0
           \/ np_round(args.delay, args.tsample) < 0
           \/ args.pulsetype \notin {"cathodicfirst", "anodicfirst"}
           \/ (args.pulseorder \notin {"pulsefirst", "gapfirst"}
                  /\ args.dur * args.freq > 0))
        => ret.status = "ValueError"

(* ------------------ specification: the two pulse builders ------------- *)

MaxPulseDur == 4

PulseKinds == {"anodic", "cathodic", "bogus"}

MonoInputs ==
    [ptype : PulseKinds, pdur : -1..MaxPulseDur, tsample : TsampleValues,
     delay_dur : -1..2,
     stim_dur : {None} \cup {Some(d) : d \in -1..MaxDur}]

BiInputs ==
    [ptype : PulseTypes, pdur : -1..MaxPulseDur, tsample : TsampleValues,
     interphase_dur : -1..MaxPulseDur]

InitPulse ==
    /\ \/ op = "MonophasicPulse" /\ args \in MonoInputs
       \/ op = "BiphasicPulse" /\ args \in BiInputs
    /\ pc = "call"
    /\ ret = NotCalled
    /\ heap = <<>>

\* the constructor call MonophasicPulse(**args)
CallMonophasicPulse ==
    /\ op = "MonophasicPulse"
    /\ pc = "call"
    /\ ret' = MonophasicPulse(args.ptype, args.pdur, args.tsample,
                              args.delay_dur, args.stim_dur)
    /\ pc' = "done"
    /\ UNCHANGED <<op, args, heap>>

\* the constructor call BiphasicPulse(**args)
CallBiphasicPulse ==
    /\ op = "BiphasicPulse"
    /\ pc = "call"
    /\ ret' = BiphasicPulse(args.ptype, args.pdur, args.tsample, args.interphase_dur)
    /\ pc' = "done"
    /\ UNCHANGED <<op, args, heap>>

NextPulse == CallMonophasicPulse \/ CallBiphasicPulse

SpecPulse == InitPulse /\ [][NextPulse]_vars

(* ---------------------------- claims: C4 ------------------------------ *)

\* C4: a valid BiphasicPulse is exactly phase_samples of the first polarity,
\* gap_samples zeros, phase_samples of the opposite polarity: its length is
\* 2 * phase_samples + gap_samples and its samples sum to 0.
C4_BiphasicShape ==
    (op = "BiphasicPulse" /\ pc = "done" /\ args.tsample > 0
        /\ args.ptype \in {"cathodicfirst", "anodicfirst"})
        =>
        LET p     == np_round(args.pdur, args.tsample)
            g     == np_round(args.interphase_dur, args.tsample)
            first == IF args.ptype = "cathodicfirst" THEN -1 ELSE 1
            d     == ret.value.data
        IN  IF p < 0 \/ g < 0 THEN ret.status = "ValueError"
            ELSE /\ ret.status = "ok"
                 /\ ret.value.tsample = args.tsample
                 /\ Len(d) = 2 * p + g
                 /\ \A i \in 1..Len(d) :
                        d[i] = IF i <= p THEN first
                               ELSE IF i <= p + g THEN 0 ELSE -first
                 /\ SumSeq(d) = 0

\* a pulse with two or more samples per phase and a gap that sits on a
\* rounding tie
C4_Witness ==
    /\ op = "BiphasicPulse" /\ pc = "done" /\ ret.status = "ok"
    /\ np_round(args.pdur, args.tsample) >= 2
    /\ 2 * args.interphase_dur = 3 * args.tsample
    /\ Len(ret.value.data) = 2 * np_round(args.pdur, args.tsample) + 2

(* ---------------------------- claims: C5 ------------------------------ *)

\* the stimulus duration MonophasicPulse works with
ClaimStimDur(a) == IF a.stim_dur = None THEN a.pdur + a.delay_dur ELSE a.stim_dur[1]

\* C5: a valid MonophasicPulse has exactly stim_samples samples and equals
\* the first stim_samples samples of [delay zeros, phase of +1 / -1, zeros];
\* a pulse that overruns stim_samples is truncated, not rejected; an omitted
\* stim_dur is pdur + delay_dur.
C5_MonophasicShape ==
    (op = "MonophasicPulse" /\ pc = "done" /\ args.tsample > 0
        /\ args.ptype \in {"anodic", "cathodic"} /\ args.delay_dur >= 0)
        =>
        LET p    == np_round(args.pdur, args.tsample)
            dl   == np_round(args.delay_dur, args.tsample)
            n    == np_round(ClaimStimDur(args), args.tsample)
            sign == IF args.ptype = "anodic" THEN 1 ELSE -1
            d    == ret.value.data
        IN  IF p < 0 \/ n < 0 THEN ret.status = "ValueError"
            ELSE /\ ret.status = "ok"
                 /\ ret.value.tsample = args.tsample
                 /\ Len(d) = n
                 /\ \A i \in 1..n :
                        d[i] = IF dl < i /\ i <= dl + p THEN sign ELSE 0

\* a delayed pulse cut short by stim_dur, part of the phase surviving
C5_Witness ==
    /\ op = "MonophasicPulse" /\ pc = "done" /\ ret.status = "ok"
    /\ args.stim_dur # None
    /\ np_round(args.delay_dur, args.tsample) >= 1
    /\ np_round(args.delay_dur, args.tsample) + np_round(args.pdur, args.tsample)
          > Len(ret.value.data)
    /\ Len(ret.value.data) > np_round(args.delay_dur, args.tsample)
    /\ ret.value.data[Len(ret.value.data)] # 0

(* --------------------------- parse_pulse_trains ------------------------ *)
(* Waveform objects live in heap, a sequence indexed by object identity;   *)
(* a reference is an index into it.  stim is                               *)
(*   [kind |-> "single", ref |-> r]                                        *)
(*   [kind |-> "list",   refs |-> <<r1, ...>>]                             *)
(*   [kind |-> "dict",   items |-> << <<name, r>>, ... >>]   (insertion    *)
(*                                       order, names distinct)            *)
(* and implant is its electrode count: electrode i carries the name i.     *)

NotFound == 0

\* implant.get_index(name): the electrode's position, or None
get_index(num_electrodes, name) ==
    IF name \in 1..num_electrodes THEN name ELSE NotFound

\* np.zeros_like(data)
np_zeros_like(data) == [i \in 1..Len(data) |-> 0]

\* the outcome of a call that allocates: the result and the heap after it
Outcome(r, h) == [ret |-> r, heap |-> h]

\* copy.deepcopy(list): one new object per distinct object of the list (the
\* memo maps an object met again to the copy already made)
RECURSIVE DeepCopyList(_, _, _)
DeepCopyList(refs, h, done) ==
    IF Len(done) = Len(refs) THEN Outcome(Return(done), h)
    ELSE LET i     == Len(done) + 1
             prior == {j \in 1..(i - 1) : refs[j] = refs[i]}
         IN  IF prior # {}
             THEN DeepCopyList(refs, h, Append(done, done[CHOOSE j \in prior : TRUE]))
             ELSE DeepCopyList(refs, Append(h, h[refs[i]]), Append(done, Len(h) + 1))

\* the loop over stim.items(): pt[el_idx] = copy.deepcopy(value), or raise
RECURSIVE AssignNamed(_, _, _, _, _)
AssignNamed(items, num_electrodes, h0, h, pt) ==
    IF items = <<>> THEN Outcome(Return(pt), h)
    ELSE LET el_idx == get_index(num_electrodes, items[1][1])
         IN  IF el_idx # NotFound
             THEN AssignNamed(Tail(items), num_electrodes, h0,
                              Append(h, h[items[1][2]]),
                              [pt EXCEPT ![el_idx] = Len(h) + 1])
             ELSE Outcome(Raise("ValueError", "get_index"), h0)

\* parse_pulse_trains(stim, implant) run on heap h
parse_pulse_trains(stim, num_electrodes, h) ==
    IF stim.kind = "single"
    THEN IF num_electrodes > 1
         THEN Outcome(Raise("ValueError", "num_electrodes"), h)
         ELSE Outcome(Return(<<Len(h) + 1>>), Append(h, h[stim.ref]))
    ELSE IF stim.kind = "dict"
    THEN IF stim.items = <<>>
         THEN Outcome(Raise("IndexError", "keys"), h)
         ELSE LET first   == h[stim.items[1][2]]
                  pt_zero == TimeSeries(first.tsample, np_zeros_like(first.data))
                  h1      == Append(h, pt_zero)
                  pt      == [i \in 1..num_electrodes |-> Len(h1)]
              IN  AssignNamed(stim.items, num_electrodes, h, h1, pt)
    ELSE IF Len(stim.refs) # num_electrodes
         THEN Outcome(Raise("ValueError", "len"), h)
         ELSE DeepCopyList(stim.refs, h, <<>>)

(* ------------------ specification: parse_pulse_trains ------------------ *)

\* the waveforms a caller may hold
Waveforms ==
    {TimeSeries(ts, [i \in 1..len |-> i]) : ts \in 1..2, len \in 0..MaxSamples}

\* the caller holds one or two waveform objects
CallerHeaps == UNION {[1..k -> Waveforms] : k \in 1..2}

Names == 1..MaxElectrodes

\* the items of a mapping with at most two entries
DictItems(k) ==
    {<<>>}
    \cup {<< <<a, r>> >> : a \in Names, r \in 1..k}
    \cup {<< <<a, r>>, <<b, q>> >> : <<a, b>> \in {x \in Names \X Names : x[1] # x[2]},
                                     <<r, q>> \in (1..k) \X (1..k)}

Stims(k) ==
    {[kind |-> "single", ref |-> r] : r \in 1..k}
    \cup {[kind |-> "list", refs |-> l] :
              l \in UNION {[1..m -> 1..k] : m \in 0..(MaxElectrodes + 1)}}
    \cup {[kind |-> "dict", items |-> d] : d \in DictItems(k)}

InitParse ==
    /\ op = "parse_pulse_trains"
    /\ heap \in CallerHeaps
    /\ \E n \in 0..MaxElectrodes, st \in Stims(Len(heap)) :
          args = [stim |-> st, num_electrodes |-> n, caller |-> Len(heap)]
    /\ pc = "call"
    /\ ret = NotCalled

\* the call parse_pulse_trains(stim, implant)
CallParsePulseTrains ==
    /\ op = "parse_pulse_trains"
    /\ pc = "call"
    /\ LET out == parse_pulse_trains(args.stim, args.num_electrodes, heap)
       IN  ret' = out.ret /\ heap' = out.heap
    /\ pc' = "done"
    /\ UNCHANGED <<op, args>>

\* the caller writes to one entry of the returned list in place
MutateReturned ==
    /\ op = "parse_pulse_trains"
    /\ pc = "done"
    /\ ret.status = "ok"
    /\ \E i \in 1..Len(ret.value) :
          heap' = [heap EXCEPT ![ret.value[i]].tsample = 0]
    /\ pc' = "mutated"
    /\ UNCHANGED <<op, args, ret>>

NextParse == CallParsePulseTrains \/ MutateReturned

SpecParse == InitParse /\ [][NextParse]_vars

(* ---------------------------- claims: C3 ------------------------------ *)

\* C3: every waveform of the returned list is an independent object: a write
\* to one returned entry changes no waveform of the caller and no other
\* entry of the list (the zero-filled entries of the mapping case included).
C3_Independent ==
    [][(op = "parse_pulse_trains" /\ pc = "done" /\ pc' = "mutated")
        => /\ \A r \in 1..args.caller : heap'[r] = heap[r]
           /\ Cardinality({j \in 1..Len(ret.value) :
                               heap'[ret.value[j]] # heap[ret.value[j]]}) <= 1]_vars

\* the part of C3 the code keeps: no returned entry is an object of the
\* caller, so a write to a returned entry never reaches the caller's input
C3_KeptPart ==
    (op = "parse_pulse_trains" /\ pc = "done" /\ ret.status = "ok")
        => \A j \in 1..Len(ret.value) : ret.value[j] > args.caller

(* ---------------------------- claims: C8 ------------------------------ *)

\* C8: a single waveform is accepted only when the electrode count is 1 and
\* an ordered sequence only when its length is the electrode count; every
\* other case fails with ValueError; on success the result has count entries
\* and entry i is a copy of input waveform i.
C8_Cardinality ==
    (op = "parse_pulse_trains" /\ pc = "done" /\ args.stim.kind \in {"single", "list"})
        =>
        LET n     == args.num_electrodes
            given == IF args.stim.kind = "single" THEN <<args.stim.ref>>
                     ELSE args.stim.refs
        IN  IF Len(given) = n
            THEN /\ ret.status = "ok"
                 /\ Len(ret.value) = n
                 /\ \A i \in 1..n : heap[ret.value[i]] = heap[given[i]]
            ELSE ret.status = "ValueError"

\* the part of C8 the code keeps: sequences are checked against the count,
\* a single waveform is refused for more than one electrode, and a result
\* is a positional copy
C8_KeptPart ==
    (op = "parse_pulse_trains" /\ pc = "done" /\ args.stim.kind \in {"single", "list"})
        =>
        LET n     == args.num_electrodes
            given == IF args.stim.kind = "single" THEN <<args.stim.ref>>
                     ELSE args.stim.refs
        IN  IF Len(given) = n \/ (args.stim.kind = "single" /\ n = 0)
            THEN /\ ret.status = "ok"
                 /\ Len(ret.value) = Len(given)
                 /\ \A i \in 1..Len(given) : heap[ret.value[i]] = heap[given[i]]
            ELSE ret.status = "ValueError"

(* ---------------------------- claims: C9 ------------------------------ *)

\* the result the claim describes for a mapping: count entries, the named
\* ones equal to the waveforms supplied, the others zero and shaped like the
\* first supplied entry
ClaimMappingResult ==
    LET items == args.stim.items
        n     == args.num_electrodes
    IN  /\ ret.status = "ok"
        /\ Len(ret.value) = n
        /\ \A k \in 1..Len(items) :
              heap[ret.value[items[k][1]]] = heap[items[k][2]]
        /\ \A i \in 1..n :
              (\A k \in 1..Len(items) : items[k][1] # i)
                 => /\ items # <<>>
                       => /\ heap[ret.value[i]].tsample = heap[items[1][2]].tsample
                          /\ Len(heap[ret.value[i]].data) = Len(heap[items[1][2]].data)
                    /\ \A t \in 1..Len(heap[ret.value[i]].data) :
                          heap[ret.value[i]].data[t] = 0

\* C9: a mapping yields count entries laid out as above when every key
\* resolves, fails with ValueError when a key does not, and every mapping,
\* the empty one included, yields one of the two.
C9_Mapping ==
    (op = "parse_pulse_trains" /\ pc = "done" /\ args.stim.kind = "dict")
        => IF \E k \in 1..Len(args.stim.items) :
                  args.stim.items[k][1] \notin 1..args.num_electrodes
           THEN ret.status = "ValueError" /\ ret.value = NoValue
           ELSE ClaimMappingResult \/ ret.status = "ValueError"

\* the part of C9 the code keeps: every non-empty mapping
C9_KeptPart ==
    (op = "parse_pulse_trains" /\ pc = "done" /\ args.stim.kind = "dict"
        /\ args.stim.items # <<>>)
        => IF \E k \in 1..Len(args.stim.items) :
                  args.stim.items[k][1] \notin 1..args.num_electrodes
           THEN ret.status = "ValueError" /\ ret.value = NoValue
           ELSE ClaimMappingResult

(* --------------------------- image2pulsetrain -------------------------- *)
(* Pixels are whole numbers (0 or 1 on the unit scale, up to 255 on the    *)
(* byte scale) and a magnitude is a fraction <<numerator, denominator>>    *)
(* with a positive denominator.  valrange is counted in the unit of the    *)
(* parameter the magnitude is mapped to (Hz, or 1e-8 of amplitude).  The   *)
(* collaborators of the image step stand in the inputs by their results:   *)
(* img.gray is the grey grid that imread / astype / rgb2gray hand back,    *)
(* taken at the resolution resize is asked for, and implant.rf[e] is the   *)
(* weight electrode e's receptive_field gives to each pixel.               *)

\* a / b < c / d for positive denominators
FracLess(x, y) == x[1] * y[2] < y[1] * x[2]

\* magn.min() and magn.max()
FracMin(s) == CHOOSE x \in {s[i] : i \in 1..Len(s)} :
                  \A i \in 1..Len(s) : ~FracLess(s[i], x)

FracMax(s) == CHOOSE x \in {s[i] : i \in 1..Len(s)} :
                  \A i \in 1..Len(s) : ~FracLess(x, s[i])

\* img_orig.max(), on the numerators
PixelMax(gray) == CHOOSE p \in {gray[j] : j \in 1..Len(gray)} :
                      \A j \in 1..Len(gray) : gray[j] <= p

\* the divisor of `img_orig /= 255.0`, 1 where the division is skipped
PixelScale(gray) == IF PixelMax(gray) > 1 THEN 255 ELSE 1

\* np.all(img_orig >= 0.0) and np.all(img_orig <= 1.0), after the division
PixelsInRange(gray) ==
    \A j \in 1..Len(gray) : gray[j] >= 0 /\ gray[j] <= PixelScale(gray)

\* img_orig = 1.0 - img_orig under invert, on the numerators
Inverted(invert, gray) ==
    [j \in 1..Len(gray) |-> IF invert THEN PixelScale(gray) - gray[j] ELSE gray[j]]

\* np.sum(rf.T * img_resize) / np.sum(rf) for one electrode
WeightedMean(w, pixels, scale) ==
    <<SumSeq([j \in 1..Len(pixels) |-> w[j] * pixels[j]]), scale * SumSeq(w)>>

\* magn as the loop over the electrodes leaves it
RawMagnitudes(a) ==
    [e \in 1..Len(a.implant.rf) |->
        WeightedMean(a.implant.rf[e], Inverted(a.invert, a.img.gray),
                     PixelScale(a.img.gray))]

\* (magn - magn.min()) / (magn.max() - magn.min()) where min < max
Normalized(magn) ==
    LET lo == FracMin(magn)
        hi == FracMax(magn)
    IN  IF FracLess(lo, hi)
        THEN [e \in 1..Len(magn) |->
                 <<(magn[e][1] * lo[2] - lo[1] * magn[e][2]) * hi[2],
                   magn[e][2] * (hi[1] * lo[2] - lo[1] * hi[2])>>]
        ELSE magn

\* magn * np.diff(valrange) + valrange[0]; the inputs are chosen so that
\* the division leaves no remainder
Rescaled(a) ==
    LET magn == IF a.max_contrast THEN Normalized(RawMagnitudes(a))
                ELSE RawMagnitudes(a)
    IN  [e \in 1..Len(magn) |->
            (magn[e][1] * (a.valrange[2] - a.valrange[1])) \div magn[e][2]
                + a.valrange[1]]

\* amp, freq of one electrode for a recognized coding
Coding(coding, m, const_amp, const_freq) ==
    IF coding = "amplitude" THEN [amp |-> m, freq |-> const_freq]
    ELSE [amp |-> const_amp, freq |-> m]

\* PulseTrain(tsample, freq=freq, amp=amp, dur=dur, pulse_dur=pulsedur,
\*            interphase_dur=interphasedur, pulsetype=pulsetype)
ElectrodeTrain(a, m) ==
    LET c == Coding(a.coding, m, a.const_amp, a.const_freq)
    IN  PulseTrain([tsample |-> a.tsample, freq |-> c.freq, amp |-> c.amp,
                    dur |-> a.dur, delay |-> 0, pulse_dur |-> a.pulsedur,
                    interphase_dur |-> a.interphasedur, pulsetype |-> a.pulsetype,
                    pulseorder |-> "pulsefirst"])

\* the loop over magn: pulses so far, or the first exception
RECURSIVE MapMagnitudes(_, _, _)
MapMagnitudes(a, magn, pulses) ==
    IF magn = <<>> THEN Return(pulses)
    ELSE IF a.coding \notin {"amplitude", "frequency"}
         THEN Raise("ValueError", "coding")
    ELSE LET pt == ElectrodeTrain(a, Head(magn))
         IN  IF pt.status # "ok" THEN pt
             ELSE MapMagnitudes(a, Tail(magn), Append(pulses, pt.value))

\* image2pulsetrain(img, implant, ...)
image2pulsetrain(a) ==
    IF ~a.skimage THEN Raise("ImportError", "skimage")
    ELSE IF ~(Len(a.valrange) = 2 /\ a.valrange[2] > a.valrange[1])
         THEN Raise("AssertionError", "valrange")
    ELSE IF ~a.implant.is_array THEN Raise("TypeError", "implant")
    ELSE IF a.img.kind = "file" /\ ~a.img.readable THEN Raise("OSError", "imread")
    ELSE IF a.img.kind = "array" /\ a.img.ndim # 2 /\ a.img.channels # 3
         THEN Raise("AssertionError", "channels")
    ELSE IF ~PixelsInRange(a.img.gray) THEN Raise("AssertionError", "pixels")
    ELSE IF a.implant.rf = <<>> THEN Raise("IndexError", "xyr")
    ELSE MapMagnitudes(a, Rescaled(a), <<>>)

(* ------------------- specification: image2pulsetrain ------------------- *)

Codings == {"amplitude", "frequency", "bogus"}

\* [lo, hi] with hi - lo even, so that a mean of two pixels rescales to a
\* whole unit
ValidRanges == {<<0, 2>>, <<1, 3>>}

ValRanges == ValidRanges \cup {<<3, 0>>, <<0, 0>>, <<0, 2, 4>>}

\* a numpy array of ndim axes (the last of `channels` entries when ndim is 3)
ArrayImage(ndim, channels, gray) ==
    [kind |-> "array", ndim |-> ndim, channels |-> channels, readable |-> TRUE,
     gray |-> gray]

\* a filename
FileImage(readable, gray) ==
    [kind |-> "file", ndim |-> 2, channels |-> 1, readable |-> readable,
     gray |-> gray]

\* grey arrays of two pixels, on the unit scale and on the byte scale
GreyImages ==
    {ArrayImage(2, 1, g) : g \in {<<0, 1>>, <<1, 0>>, <<1, 1>>, <<0, 255>>}}

Images ==
    GreyImages \cup
    {ArrayImage(2, 1, <<-1, 1>>), ArrayImage(2, 1, <<-1, 255>>),
     ArrayImage(3, 3, <<0, 1>>), ArrayImage(3, 4, <<0, 1>>),
     FileImage(TRUE, <<0, 1>>), FileImage(FALSE, <<>>)}

\* the weights of one receptive field over the two pixels
RfWeights == {<<1, 0>>, <<0, 1>>, <<1, 1>>}

\* implants of n electrodes
Arrays(n) == [is_array : {TRUE}, rf : [1..n -> RfWeights]]

\* the calls that reach the loop over the electrodes
MapInputs ==
    [skimage : {TRUE}, valrange : ValidRanges, img : GreyImages,
     implant : UNION {Arrays(n) : n \in 1..MaxElectrodes},
     invert : BOOLEAN, max_contrast : BOOLEAN,
     coding : Codings, const_amp : {3}, const_freq : {1, 4},
     tsample : {0, 1, 2}, dur : {5, MaxDur}, pulsedur : {1},
     interphasedur : InterphaseValues, pulsetype : {"cathodicfirst", "bogus"}]

\* the calls around the checks that come before the loop
GateInputs ==
    [skimage : BOOLEAN, valrange : ValRanges, img : Images,
     implant : [is_array : BOOLEAN, rf : UNION {[1..n -> RfWeights] : n \in 0..1}],
     invert : BOOLEAN, max_contrast : {FALSE},
     coding : Codings, const_amp : {3}, const_freq : {4},
     tsample : {0, 1}, dur : {MaxDur}, pulsedur : {1},
     interphasedur : {0}, pulsetype : {"cathodicfirst"}]

ImageInputs == MapInputs \cup GateInputs

InitImage ==
    /\ op = "image2pulsetrain"
    /\ args \in ImageInputs
    /\ pc = "call"
    /\ ret = NotCalled
    /\ heap = <<>>

\* the call image2pulsetrain(img, implant, **args)
CallImage2PulseTrain ==
    /\ op = "image2pulsetrain"
    /\ pc = "call"
    /\ ret' = image2pulsetrain(args)
    /\ pc' = "done"
    /\ UNCHANGED <<op, args, heap>>

NextImage == CallImage2PulseTrain

SpecImage == InitImage /\ [][NextImage]_vars

(* ---------------------------- claims: C10 ----------------------------- *)

\* the pulse train the claim assigns to an electrode of magnitude m
ClaimTrain(a, m) ==
    PulseTrain([tsample |-> a.tsample,
                freq |-> IF a.coding = "frequency" THEN m ELSE a.const_freq,
                amp |-> IF a.coding = "amplitude" THEN m ELSE a.const_amp,
                dur |-> a.dur, delay |-> 0, pulse_dur |-> a.pulsedur,
                interphase_dur |-> a.interphasedur, pulsetype |-> a.pulsetype,
                pulseorder |-> "pulsefirst"])

\* the inputs the mapper is specified for: scikit-image at hand, a range
\* [lo, hi] with hi > lo, an electrode array, a grey or RGB image that loads
\* and has its pixels in [0, 1] or in [0, 255]
ClaimValidInputs(a) ==
    /\ a.skimage
    /\ Len(a.valrange) = 2 /\ a.valrange[2] > a.valrange[1]
    /\ a.implant.is_array
    /\ a.img.readable
    /\ (a.img.kind = "array" /\ a.img.ndim # 2) => a.img.channels = 3
    /\ PixelsInRange(a.img.gray)

\* what the claim says of a call on n electrodes
ClaimDispatch(n) ==
    /\ args.coding \notin {"amplitude", "frequency"}
         => (ret.status = "ValueError" /\ ret.value = NoValue)
    /\ ret.status = "ok"
         => /\ Len(ret.value) = n
            /\ \A i \in 1..n :
                  /\ ClaimTrain(args, Rescaled(args)[i]).status = "ok"
                  /\ ret.value[i] = ClaimTrain(args, Rescaled(args)[i]).value
    /\ (args.coding \in {"amplitude", "frequency"}
          /\ \A i \in 1..n : ClaimTrain(args, Rescaled(args)[i]).status = "ok")
         => ret.status = "ok"

\* C10: image2pulsetrain returns one pulse train per electrode in electrode
\* order, the i-th built from the rescaled magnitude m_i as amplitude
\* (frequency const_freq) under 'amplitude' coding and as frequency
\* (amplitude const_amp) under 'frequency' coding; any other coding token
\* fails with ValueError and returns nothing.
C10_Dispatch ==
    (op = "image2pulsetrain" /\ pc = "done" /\ ClaimValidInputs(args))
        => ClaimDispatch(Len(args.implant.rf))

\* the part of C10 the code keeps: the same for an array of at least one
\* electrode
C10_KeptPart ==
    (op = "image2pulsetrain" /\ pc = "done" /\ ClaimValidInputs(args)
        /\ Len(args.implant.rf) >= 1)
        => ClaimDispatch(Len(args.implant.rf))

(* ---------------------------- claims: C11 ----------------------------- *)
(* Checked under SpecTrain.                                                *)

\* the amplitude-scaled biphasic pulse, sample by sample
ClaimPulse(a) ==
    LET p     == np_round(a.pulse_dur, a.tsample)
        g     == np_round(a.interphase_dur, a.tsample)
        first == IF a.pulsetype = "cathodicfirst" THEN -1 ELSE 1
    IN  [i \in 1..(2 * p + g) |->
            a.amp * (IF i <= p THEN first ELSE IF i <= p + g THEN 0 ELSE -first)]

\* ceil(dur * freq) and floor(dur * freq), for freq > 0
ClaimCeilPeriods(a) == (a.dur * a.freq + UnitsPerSecond - 1) \div UnitsPerSecond

ClaimFloorPeriods(a) == (a.dur * a.freq) \div UnitsPerSecond

ClaimEnvelope(a) == np_round(UnitsPerSecond, a.freq * a.tsample)

\* where the pulse starts inside one period (0-based)
ClaimPulseOffset(a) ==
    LET dl == np_round(a.delay, a.tsample)
    IN  IF a.pulseorder = "pulsefirst" THEN dl
        ELSE ClaimEnvelope(a) - Len(ClaimPulse(a))

\* sample i (1-based) of the endless repetition of ceil(dur * freq) periods
\* followed by zeros
ClaimSample(a, i) ==
    LET k == (i - 1) \div ClaimEnvelope(a)
        j == ((i - 1) % ClaimEnvelope(a)) - ClaimPulseOffset(a) + 1
    IN  IF k < ClaimCeilPeriods(a) /\ j >= 1 /\ j <= Len(ClaimPulse(a))
        THEN ClaimPulse(a)[j] ELSE 0

\* the number of places of d where a complete copy of p stands
Occurrences(d, p) ==
    Cardinality({t \in 1..(Len(d) - Len(p) + 1) : SubSeq(d, t, t + Len(p) - 1) = p})

\* a successful construction off the all-zeros shortcut, with a phase of at
\* least one sample
ClaimNonDegenerate ==
    /\ op = "PulseTrain" /\ pc = "done" /\ ret.status = "ok"
    /\ args.freq # 0 /\ Abs(args.amp) * 10^8 > AmpUnitsPerOne
    /\ np_round(args.pulse_dur, args.tsample) >= 1

\* C11 as stated: a successful non-degenerate PulseTrain contains exactly
\* floor(dur * freq) complete copies of the amplitude-scaled biphasic pulse.
\* Stated for amplitudes beyond the np.isclose tolerance, so that a
\* violation does not rest on the reading of "non-zero".
C11_AsStated ==
    ClaimNonDegenerate
        => Occurrences(ret.value.data, ClaimPulse(args)) = ClaimFloorPeriods(args)

\* C11 amended: the output is the first round(dur / tsample) samples of
\* ceil(dur * freq) periods of envelope_samples each, laid out
\* [delay, pulse, gap] or [delay, gap, pulse], followed by zeros; the
\* complete pulses in it are those of the periods whose pulse ends within
\* the output, and they number floor(dur * freq) when dur is not negative
\* and dur * freq and 1 / (freq * tsample) are whole numbers (a negative dur
\* gives an empty output, with no pulse in it).
C11_Layout ==
    ClaimNonDegenerate
        =>
        LET d    == ret.value.data
            env  == ClaimEnvelope(args)
            size == Len(ClaimPulse(args))
            off  == ClaimPulseOffset(args)
        IN  /\ env >= np_round(args.delay, args.tsample) + size
            /\ \A i \in 1..Len(d) : d[i] = ClaimSample(args, i)
            /\ Occurrences(d, ClaimPulse(args))
                  = Cardinality({k \in 0..(ClaimCeilPeriods(args) - 1) :
                                    k * env + off + size <= Len(d)})
            /\ (args.dur >= 0
                   /\ (args.dur * args.freq) % UnitsPerSecond = 0
                   /\ UnitsPerSecond % (args.freq * args.tsample) = 0)
                  => Occurrences(d, ClaimPulse(args)) = ClaimFloorPeriods(args)
            /\ (args.dur < 0 => Len(d) = 0)

\* the shape of the example: dur * freq = 2 and a whole number of samples
\* per period, gap first, two complete pulses in the output
C11_Witness ==
    /\ ClaimNonDegenerate
    /\ args.pulseorder = "gapfirst"
    /\ args.dur * args.freq = 2 * UnitsPerSecond
    /\ UnitsPerSecond % (args.freq * args.tsample) = 0
    /\ np_round(args.delay, args.tsample) >= 1
    /\ Occurrences(ret.value.data, ClaimPulse(args)) = 2

====
